---- MODULE Spec2Model ----
(***************************************************************************)
(* Model of the presentation engine of vulkan_tutorial:                    *)
(*   src/src/lib.rs             App::run (the event-loop closure)          *)
(*   src/src/graphic_engine.rs  Graphicengine (render, recreate_swapchain, *)
(*                              device selection, swapchain, framebuffers) *)
(* The GPU API (vulkano) and the window system (winit) are the             *)
(* environment: their results are inputs drawn from small sets.            *)
(***************************************************************************)
EXTENDS Integers, Sequences, FiniteSets, TLC

VARIABLES
    pc,                  \* "running" | "exited" (ControlFlow::Exit) | "panicked"
    winSize,             \* window.inner_size(), owned by the window system
    swapchain,           \* Graphicengine.swapchain
    framebuffers,        \* Graphicengine.framebuffers
    render_pass,         \* Graphicengine.render_pass
    viewport,            \* Graphicengine.viewport
    previous_frame_end,  \* Graphicengine.previous_frame_end : Option<Box<dyn GpuFuture>>
    recreate_swapchain,  \* the local of App::run captured by the closure
    last,                \* history: what the most recent handler invocation did
    settled,             \* history: no window resize since that invocation
    stats,               \* history: counts over the run while it is clean
    adapters,            \* enumerate_physical_devices(), input of device selection
    selected,            \* result of get_best_compatible_physical_device
    gpu_pending          \* the GPU's number of submitted frames not yet complete;
                         \* the program cannot read it, SpecGpu alone follows it

vars == <<pc, winSize, swapchain, framebuffers, render_pass, viewport,
          previous_frame_end, recreate_swapchain, last, settled, stats,
          adapters, selected, gpu_pending>>

(***************************************************************************)
(* Bounds of the model.                                                    *)
(***************************************************************************)
MaxWidth == 2          \* the window's width ranges over 0..MaxWidth
MaxImages == 2         \* surface capabilities: min_image_count ranges over 1..MaxImages
MaxTicks == 3          \* RedrawEventsCleared events counted in a clean run
MaxSwapchains == 2     \* successful swapchain recreations in one run
MaxAdapters == 2       \* physical devices enumerated
MaxFamilies == 2       \* queue families of one physical device

(***************************************************************************)
(* Program constants.                                                      *)
(***************************************************************************)
MinImageExtent == 1    \* an image extent of 0 is never supported
F32Mantissa == 24      \* significand bits of the f32 the viewport stores

None == [kind |-> "None"]

\* The sizes the window takes: any width up to MaxWidth, and a height that is
\* zero (a minimized window) or the least supported one.
WinSizes == (0..MaxWidth) \X (0..MinImageExtent)

\* Swapchain::recreate / Swapchain::new validate image_extent against the
\* surface capabilities and report ImageExtentNotSupported outside them; an
\* extent with a zero side (a minimized window) is always outside them.
ImageExtentSupported(extent) ==
    /\ extent[1] >= MinImageExtent
    /\ extent[2] >= MinImageExtent

(***************************************************************************)
(* `as f32` on a u32: round to nearest, ties to even, 24-bit significand.  *)
(***************************************************************************)
RECURSIVE Pow2(_)
Pow2(n) == IF n = 0 THEN 1 ELSE 2 * Pow2(n - 1)

RECURSIVE F32Quantum(_, _)
F32Quantum(n, q) == IF n < Pow2(F32Mantissa) * q THEN q ELSE F32Quantum(n, 2 * q)

AsF32(n) ==
    LET q  == F32Quantum(n, 1)
        lo == (n \div q) * q
        r  == n - lo
    IN  IF 2 * r < q THEN lo
        ELSE IF 2 * r > q THEN lo + q
        ELSE IF (lo \div q) % 2 = 0 THEN lo ELSE lo + q

(***************************************************************************)
(* Swapchain images, framebuffers, viewport.                               *)
(***************************************************************************)
\* The images vulkano hands back with a swapchain: image i of swapchain id,
\* all with the swapchain's extent.
SwapchainImages(sc) ==
    [i \in 1..sc.image_count |->
        [swapchain |-> sc.id, index |-> i - 1, dimensions |-> sc.image_extent]]

\* Swapchain::new / Swapchain::recreate on success.
NewSwapchain(id, image_extent, min_image_count) ==
    [id |-> id, image_extent |-> image_extent,
     min_image_count |-> min_image_count, image_count |-> min_image_count]

\* Variant: width and height are written the wrong way round.
SetupViewportSwapped(images, vp) ==
    [vp EXCEPT !.dimensions = <<AsF32(images[1].dimensions[2]),
                                AsF32(images[1].dimensions[1])>>]

\* window_size_dependent_setup: the viewport part.
SetupViewport(images, vp) ==
    [vp EXCEPT !.dimensions = <<AsF32(images[1].dimensions[1]),
                                AsF32(images[1].dimensions[2])>>]

\* Variant: every framebuffer is built from images[0].
SetupFramebuffersFirstImage(images, rp) ==
    [i \in 1..Len(images) |->
        [image |-> [swapchain |-> images[1].swapchain, index |-> images[1].index],
         render_pass |-> rp,
         extent |-> images[1].dimensions]]

\* window_size_dependent_setup: the framebuffers part, one per image, in order.
SetupFramebuffers(images, rp) ==
    [i \in 1..Len(images) |->
        [image |-> [swapchain |-> images[i].swapchain, index |-> images[i].index],
         render_pass |-> rp,
         extent |-> images[i].dimensions]]

(***************************************************************************)
(* Graphicengine::render.  The trace of GPU-API calls and of stores to     *)
(* previous_frame_end made by one call is kept in `calls`; a panic ends    *)
(* the trace with a call that names the unwrap or index that failed.       *)
(***************************************************************************)
Call(op, arg) == [op |-> op, arg |-> arg]

Now == [kind |-> "Now"]                       \* sync::now(device)
Fence == [kind |-> "Fence"]                   \* the flushed submit/present chain

\* What acquire_next_image can return for swapchain sc.
AcquireOutcomes(sc) ==
    [kind : {"Ok"}, image_index : 0..(sc.image_count - 1), suboptimal : BOOLEAN]
      \cup {[kind |-> "OutOfDate"], [kind |-> "Error"]}
RecordOutcomes == {"Ok", "Err"}               \* command buffer builder unwraps
ExecOutcomes == {"Ok", "Err"}                 \* then_execute(..).unwrap()
FlushOutcomes == {"Ok", "OutOfDate", "Error"} \* then_signal_fence_and_flush()

RenderResult(flag, pfe, calls, panicked) ==
    [recreate_swapchain |-> flag, previous_frame_end |-> pfe,
     calls |-> calls, panicked |-> panicked]

\* Variant: on OutOfDate the flag is raised but the failed chain is kept as
\* the in-flight future.
RenderResolveKeepsChain(flag, calls, flush) ==
    CASE flush = "Ok" ->
           RenderResult(flag, Fence,
                        Append(calls, Call("store_previous_frame_end", 1)), FALSE)
      [] flush = "OutOfDate" ->
           RenderResult(TRUE, Fence,
                        Append(calls, Call("store_previous_frame_end", 1)), FALSE)
      [] OTHER ->
           RenderResult(flag, Now,
                        Append(Append(calls, Call("println", -1)),
                               Call("store_previous_frame_end", 0)), FALSE)

\* Variant: a flush failure other than OutOfDate is unwrapped.
RenderResolveUnwraps(flag, calls, flush) ==
    CASE flush = "Ok" ->
           RenderResult(flag, Fence,
                        Append(calls, Call("store_previous_frame_end", 1)), FALSE)
      [] flush = "OutOfDate" ->
           RenderResult(TRUE, Now,
                        Append(calls, Call("store_previous_frame_end", 0)), FALSE)
      [] OTHER ->
           RenderResult(flag, None, Append(calls, Call("panic_flush", -1)), TRUE)

\* Variant: a flush failure other than OutOfDate also raises the flag.
RenderResolveErrorSetsFlag(flag, calls, flush) ==
    CASE flush = "Ok" ->
           RenderResult(flag, Fence,
                        Append(calls, Call("store_previous_frame_end", 1)), FALSE)
      [] flush = "OutOfDate" ->
           RenderResult(TRUE, Now,
                        Append(calls, Call("store_previous_frame_end", 0)), FALSE)
      [] OTHER ->
           RenderResult(TRUE, Now,
                        Append(Append(calls, Call("println", -1)),
                               Call("store_previous_frame_end", 0)), FALSE)

\* lines 168-180: the match on the flushed future.
RenderResolve(flag, calls, flush) ==
    CASE flush = "Ok" ->
           RenderResult(flag, Fence,
                        Append(calls, Call("store_previous_frame_end", 1)), FALSE)
      [] flush = "OutOfDate" ->
           RenderResult(TRUE, Now,
                        Append(calls, Call("store_previous_frame_end", 0)), FALSE)
      [] OTHER ->
           RenderResult(flag, Now,
                        Append(Append(calls, Call("println", -1)),
                               Call("store_previous_frame_end", 0)), FALSE)

\* Variant: the present is always queued for image 0.
PresentIndexFirst(image_index) == 0

\* line 164: the image index handed to the present.
PresentIndex(image_index) == image_index

\* lines 155-166: take the in-flight future, join, execute, present, flush.
RenderSubmit(flag, pfe, calls, image_index, exec, flush) ==
    LET c1 == calls \o << Call("take_previous_frame_end", -1),
                          Call("join", image_index),
                          Call("then_execute", image_index) >>
    IN  IF pfe = None
        THEN RenderResult(flag, None, Append(calls, Call("panic_unwrap_none", -1)), TRUE)
        ELSE IF exec = "Err"
        THEN RenderResult(flag, None, Append(c1, Call("panic_execute", -1)), TRUE)
        ELSE RenderResolve(flag,
                 c1 \o << Call("then_swapchain_present", PresentIndex(image_index)),
                          Call("then_signal_fence_and_flush", -1) >>,
                 flush)

\* Variant: the render pass is always begun on the first framebuffer.
FramebufferIndexFirst(image_index) == 0

\* line 144: the framebuffer the render pass is begun on.
FramebufferIndex(image_index) == image_index

\* lines 129-153: record the one clear render pass.
RenderRecord(flag, pfe, fbs, calls, image_index, rec, exec, flush) ==
    IF rec = "Err"
    THEN RenderResult(flag, pfe, Append(calls, Call("panic_record", -1)), TRUE)
    ELSE IF FramebufferIndex(image_index) >= Len(fbs)
    THEN RenderResult(flag, pfe, Append(calls, Call("panic_index", -1)), TRUE)
    ELSE RenderSubmit(flag, pfe,
             calls \o << Call("begin_render_pass", FramebufferIndex(image_index)),
                         Call("end_render_pass", -1),
                         Call("build", -1) >>,
             image_index, exec, flush)

\* Variant: the OutOfDate arm returns without raising the flag.
AcquireOutOfDateKeepsFlag(flag, pfe, calls) == RenderResult(flag, pfe, calls, FALSE)

\* lines 118-121: acquire returned OutOfDate.
AcquireOutOfDate(flag, pfe, calls) == RenderResult(TRUE, pfe, calls, FALSE)

\* Variant: the suboptimal flag of the acquire is dropped.
AfterAcquireIgnoresSuboptimal(flag, suboptimal) == flag

\* lines 125-127: the suboptimal flag of a successful acquire.
AfterAcquire(flag, suboptimal) == IF suboptimal THEN TRUE ELSE flag

\* Variant: the reclaim step takes the future out of the field.
AfterCleanupTakes(pfe) == None

\* lines 109-113: as_mut().take() takes the temporary Option<&mut _>, so the
\* field keeps its future; cleanup_finished() only probes it.
AfterCleanup(pfe) == pfe

\* lines 108-181.
Render(flag, pfe, fbs, acq, rec, exec, flush) ==
    LET c0 == << Call("cleanup_finished", -1) >>
        c1 == Append(c0, Call("acquire_next_image",
                              IF acq.kind = "Ok" THEN acq.image_index ELSE -1))
        p1 == AfterCleanup(pfe)
    IN  IF pfe = None
        THEN RenderResult(flag, pfe, << Call("panic_unwrap_none", -1) >>, TRUE)
        ELSE CASE acq.kind = "OutOfDate" -> AcquireOutOfDate(flag, p1, c1)
               [] acq.kind = "Error" ->
                    RenderResult(flag, p1, Append(c1, Call("panic_acquire", -1)), TRUE)
               [] OTHER ->
                    RenderRecord(AfterAcquire(flag, acq.suboptimal), p1, fbs, c1,
                                 acq.image_index, rec, exec, flush)

(***************************************************************************)
(* Graphicengine::recreate_swapchain.                                      *)
(***************************************************************************)
RecreateOutcomes == {"Ok", "Err"}   \* Swapchain::recreate on a supported extent

RecreateResult(flag, sc, fbs, vp, outcome) ==
    [recreate_swapchain |-> flag, swapchain |-> sc, framebuffers |-> fbs,
     viewport |-> vp, outcome |-> outcome]

\* Variant: the unsupported-extent arm resizes the viewport before returning.
RecreateNoOpResetsViewport(flag, sc, fbs, vp) ==
    RecreateResult(flag, sc, fbs, [vp EXCEPT !.dimensions = << 0, 0 >>], "noop")

\* Variant: the unsupported-extent error is treated like any other error.
RecreateNoOpPanics(flag, sc, fbs, vp) == RecreateResult(flag, sc, fbs, vp, "panic")

\* Variant: the unsupported-extent arm clears the flag before returning.
RecreateNoOpClearsFlag(flag, sc, fbs, vp) == RecreateResult(FALSE, sc, fbs, vp, "noop")

\* line 197: ImageExtentNotSupported => return.
RecreateNoOp(flag, sc, fbs, vp) == RecreateResult(flag, sc, fbs, vp, "noop")

\* Variant: the create info is built from Default instead of from the old
\* swapchain's create_info().
RecreateInfoDefault(sc, image_extent) ==
    [image_extent |-> image_extent, min_image_count |-> 2]

\* Variant: the old swapchain's create_info() is handed over unchanged.
RecreateInfoOldExtent(sc, image_extent) ==
    [image_extent |-> sc.image_extent, min_image_count |-> sc.min_image_count]

\* lines 192-195: the create info handed to Swapchain::recreate.
RecreateInfo(sc, image_extent) ==
    [image_extent |-> image_extent, min_image_count |-> sc.min_image_count]

\* lines 201-207: install the new swapchain, rebuild framebuffers and viewport.
RecreateInstall(new_swapchain, rp, vp) ==
    RecreateResult(FALSE, new_swapchain,
                   SetupFramebuffers(SwapchainImages(new_swapchain), rp),
                   SetupViewport(SwapchainImages(new_swapchain), vp), "ok")

\* lines 183-208.
RecreateSwapchain(flag, sc, fbs, rp, vp, win, outcome) ==
    LET info == RecreateInfo(sc, win)
    IN  IF ~ImageExtentSupported(info.image_extent) THEN RecreateNoOp(flag, sc, fbs, vp)
        ELSE IF outcome = "Err" THEN RecreateResult(flag, sc, fbs, vp, "panic")
        ELSE RecreateInstall(
                 NewSwapchain(sc.id + 1, info.image_extent, info.min_image_count),
                 rp, vp)

(***************************************************************************)
(* Graphicengine::get_best_compatible_physical_device.                     *)
(***************************************************************************)
\* The variants of vulkano's PhysicalDeviceType.
DeviceTypes == {"DiscreteGpu", "IntegratedGpu", "VirtualGpu", "Cpu", "Other"}

QueueFamilies == [graphics : BOOLEAN, surface_support : {"true", "false", "err"}]

RECURSIVE SeqsUpTo(_, _)
SeqsUpTo(S, n) ==
    IF n = 0 THEN {<< >>}
    ELSE LET shorter == SeqsUpTo(S, n - 1)
         IN  shorter \cup {Append(q, x) : q \in {t \in shorter : Len(t) = n - 1}, x \in S}

Adapters ==
    [device_type : DeviceTypes, khr_swapchain : BOOLEAN,
     families : SeqsUpTo(QueueFamilies, MaxFamilies) \ {<< >>}]

\* lines 218-222: supported_extensions().contains(device_extensions).
SupportsExtensions(a) == a.khr_swapchain

\* lines 230-233: graphics && surface_support(i, surface).unwrap_or(false).
FamilyUsable(f) == f.graphics /\ (IF f.surface_support = "err" THEN FALSE
                                  ELSE f.surface_support = "true")

\* lines 224-235: position() of the first usable family, scanning from index
\* i (0-based); -1 stands for None.
RECURSIVE Position(_, _)
Position(families, i) ==
    IF i >= Len(families) THEN -1
    ELSE IF FamilyUsable(families[i + 1]) THEN i
    ELSE Position(families, i + 1)

\* lines 239-246: the key of min_by_key.
DeviceTypeKey(device_type) ==
    CASE device_type = "DiscreteGpu" -> 0
      [] device_type = "IntegratedGpu" -> 1
      [] device_type = "VirtualGpu" -> 2
      [] device_type = "Cpu" -> 3
      [] device_type = "Other" -> 4
      [] OTHER -> 5

\* Variant: on equal keys the later element wins (max_by_key's tie rule).
TakeOnTie(best, next) ==
    IF DeviceTypeKey(next.device_type) <= DeviceTypeKey(best.device_type)
    THEN next ELSE best

\* Iterator::min_by_key keeps the element it holds unless the next one is
\* strictly smaller.
KeepOrTake(best, next) ==
    IF DeviceTypeKey(next.device_type) < DeviceTypeKey(best.device_type)
    THEN next ELSE best

\* lines 215-237: filter, filter_map and min_by_key over the enumeration,
\* from adapter k on, `best` being the minimum so far (None when there is none).
RECURSIVE SelectFrom(_, _, _)
SelectFrom(devs, k, best) ==
    IF k > Len(devs) THEN best
    ELSE LET a == devs[k]
             i == Position(a.families, 0)
             cand == [kind |-> "Some", adapter |-> k, device_type |-> a.device_type,
                      queue_family_index |-> i]
         IN  IF ~SupportsExtensions(a) \/ i = -1 THEN SelectFrom(devs, k + 1, best)
             ELSE IF best = None THEN SelectFrom(devs, k + 1, cand)
             ELSE SelectFrom(devs, k + 1, KeepOrTake(best, cand))

\* lines 210-249: .expect("No suitable physical device found").
GetBestCompatiblePhysicalDevice(devs) ==
    LET r == SelectFrom(devs, 1, None)
    IN  IF r = None THEN [kind |-> "Panic"] ELSE r

(***************************************************************************)
(* State after App::new / Graphicengine::new.                              *)
(***************************************************************************)
\* `calls` is the trace of the invocation; `acquire` and `flush` what the GPU
\* API returned; `render` how render ended; `target` the framebuffer the
\* render pass was begun on; `flagAfterMatch` the flag when the match was
\* left; `recreate` how recreate_swapchain ended ("none": not called);
\* `after` whether the invocation before this one handled a Resized event
\* with no window resize since, and how its recreation ended.
NoHandler ==
    [event |-> "None", calls |-> << >>, acquire |-> "none", flush |-> "none",
     render |-> "none", target |-> None,
     flagAfterMatch |-> FALSE, recreate |-> "none", after |-> "no"]

NoStats ==
    [ticks |-> 0, acquires |-> 0, records |-> 0, submits |-> 0, presents |-> 0,
     stores |-> 0, clean |-> TRUE]

\* lines 64-79: single_pass_renderpass! with one colour attachment.
RenderPass == [load |-> "Clear", store |-> "Store", samples |-> 1]

\* lines 82-86.
InitialViewport ==
    [origin |-> << 0, 0 >>, dimensions |-> << 0, 0 >>, depth_range |-> << 0, 1 >>]

\* lines 57-105: get_swapchain with the window's size, the render pass,
\* window_size_dependent_setup, previous_frame_end = Some(now).
EngineNew(win, min_image_count) ==
    LET sc == NewSwapchain(0, win, min_image_count)
    IN  /\ swapchain = sc
        /\ render_pass = RenderPass
        /\ framebuffers = SetupFramebuffers(SwapchainImages(sc), RenderPass)
        /\ viewport = SetupViewport(SwapchainImages(sc), InitialViewport)
        /\ previous_frame_end = Now

Init ==
    \E win \in {w \in WinSizes : ImageExtentSupported(w)}, n \in 1..MaxImages :
        /\ pc = "running"
        /\ winSize = win
        /\ EngineNew(win, n)
        /\ recreate_swapchain = FALSE
        /\ last = NoHandler
        /\ settled = TRUE
        /\ stats = NoStats
        /\ adapters = << >>
        /\ selected = [kind |-> "NotRun"]
        /\ gpu_pending = 0

(***************************************************************************)
(* App::run: one invocation of the event-loop closure.                     *)
(***************************************************************************)
RECURSIVE Count(_, _)
Count(calls, op) ==
    IF calls = << >> THEN 0
    ELSE (IF Head(calls).op = op THEN 1 ELSE 0) + Count(Tail(calls), op)

\* Position in the trace of the first call of op (0 when there is none), and
\* the argument of that call.
RECURSIVE IndexOf(_, _, _)
IndexOf(calls, op, i) ==
    IF i > Len(calls) THEN 0
    ELSE IF calls[i].op = op THEN i
    ELSE IndexOf(calls, op, i + 1)

ArgOf(calls, op) == calls[IndexOf(calls, op, 1)].arg

\* lib.rs lines 54-71: the match on the event.
Dispatch(event, flag, pfe, fbs, acq, rec, exec, flush) ==
    CASE event = "Resized" -> RenderResult(TRUE, pfe, << >>, FALSE)
      [] event = "RedrawEventsCleared" ->
           Render(flag, pfe, fbs, acq, rec, exec, flush)
      [] OTHER -> RenderResult(flag, pfe, << >>, FALSE)

\* Variant: the closure never calls recreate_swapchain.
ShouldRecreateNever(flag) == FALSE

\* Variant: recreate_swapchain is called in every invocation.
ShouldRecreateAlways(flag) == TRUE

\* lib.rs line 73: the test that guards the call of recreate_swapchain.
ShouldRecreate(flag) == flag

\* The counts of a run are kept for as long as it is clean: no Resized
\* event, no acquire or flush error, no panic in render.
Unclean == [clean |-> FALSE]

StatsAfter(st, event, m, acq, flush) ==
    LET redraw == event = "RedrawEventsCleared"
    IN  IF ~st.clean THEN st
        ELSE IF \/ event = "Resized"
                \/ redraw /\ (m.panicked \/ acq.kind # "Ok" \/ flush # "Ok")
        THEN Unclean
        ELSE [ticks |-> st.ticks + (IF redraw THEN 1 ELSE 0),
              acquires |-> st.acquires + Count(m.calls, "acquire_next_image"),
              records |-> st.records + Count(m.calls, "begin_render_pass"),
              submits |-> st.submits + Count(m.calls, "then_execute"),
              presents |-> st.presents + Count(m.calls, "then_swapchain_present"),
              stores |-> st.stores + Count(m.calls, "store_previous_frame_end"),
              clean |-> TRUE]

\* lib.rs lines 73-76: recreate_swapchain is called when the flag is set
\* after the match (m is what the match left).
AfterMatch(m, sc, fbs, rp, vp, win, rcr) ==
    IF ~m.panicked /\ ShouldRecreate(m.recreate_swapchain)
    THEN RecreateSwapchain(m.recreate_swapchain, sc, fbs, rp, vp, win, rcr)
    ELSE RecreateResult(m.recreate_swapchain, sc, fbs, vp, "none")

\* The closure's effect, given what the match (m) and the recreation (r) did.
Complete(event, acq, flush, m, r) ==
    /\ r.outcome = "ok" => swapchain.id < MaxSwapchains
    /\ pc' = IF m.panicked \/ r.outcome = "panic" THEN "panicked"
             ELSE IF event = "CloseRequested" THEN "exited"
             ELSE pc
    /\ swapchain' = r.swapchain
    /\ framebuffers' = r.framebuffers
    /\ viewport' = r.viewport
    /\ recreate_swapchain' = r.recreate_swapchain
    /\ previous_frame_end' = m.previous_frame_end
    /\ last' = [event |-> event,
                calls |-> IF r.outcome = "none" THEN m.calls
                          ELSE Append(m.calls, Call("recreate", -1)),
                acquire |-> IF event # "RedrawEventsCleared"
                               \/ Count(m.calls, "acquire_next_image") = 0
                            THEN "none"
                            ELSE IF acq.kind = "Ok" /\ acq.suboptimal
                            THEN "Suboptimal" ELSE acq.kind,
                flush |-> IF Count(m.calls, "then_signal_fence_and_flush") > 0
                          THEN flush ELSE "none",
                render |-> IF event # "RedrawEventsCleared" THEN "none"
                           ELSE IF m.panicked THEN "panicked" ELSE "returned",
                target |-> IF Count(m.calls, "begin_render_pass") = 0 THEN None
                           ELSE [image |-> framebuffers[ArgOf(m.calls, "begin_render_pass") + 1].image,
                                 extent |-> framebuffers[ArgOf(m.calls, "begin_render_pass") + 1].extent],
                flagAfterMatch |-> m.recreate_swapchain,
                recreate |-> r.outcome,
                after |-> IF last.event = "Resized" /\ settled
                          THEN last.recreate ELSE "no"]
    /\ settled' = TRUE
    /\ stats' = StatsAfter(stats, event, m, acq, flush)
    /\ UNCHANGED << winSize, render_pass, adapters, selected >>

AfterDispatch(event, acq, flush, rcr, m) ==
    Complete(event, acq, flush, m,
             AfterMatch(m, swapchain, framebuffers, render_pass, viewport,
                        winSize, rcr))

\* lib.rs lines 53-77: the whole closure, for one event and one choice of
\* the results the GPU API returns during it.
Handle(event, acq, rec, exec, flush, rcr) ==
    AfterDispatch(event, acq, flush, rcr,
                  Dispatch(event, recreate_swapchain, previous_frame_end,
                           framebuffers, acq, rec, exec, flush))

\* The results the GPU API can return during one render: the later ones
\* matter only when the earlier ones let render go on.
RenderInputs(sc) ==
    { x \in [acq : AcquireOutcomes(sc), rec : RecordOutcomes,
             exec : ExecOutcomes, flush : FlushOutcomes] :
        /\ x.acq.kind # "Ok" => x.rec = "Ok"
        /\ x.rec # "Ok" => x.exec = "Ok"
        /\ x.exec # "Ok" => x.flush = "Ok" }

NoAcquire == [kind |-> "OutOfDate"]

HandleCloseRequested ==
    /\ pc = "running"
    /\ \E rcr \in RecreateOutcomes :
           Handle("CloseRequested", NoAcquire, "Ok", "Ok", "Ok", rcr)
    /\ UNCHANGED gpu_pending

HandleResized ==
    /\ pc = "running"
    /\ \E rcr \in RecreateOutcomes :
           Handle("Resized", NoAcquire, "Ok", "Ok", "Ok", rcr)
    /\ UNCHANGED gpu_pending

HandleRedrawEventsCleared ==
    /\ pc = "running"
    /\ stats.clean => stats.ticks < MaxTicks
    /\ \E x \in RenderInputs(swapchain), rcr \in RecreateOutcomes :
           Handle("RedrawEventsCleared", x.acq, x.rec, x.exec, x.flush, rcr)
    /\ UNCHANGED gpu_pending

HandleOther ==
    /\ pc = "running"
    /\ \E rcr \in RecreateOutcomes :
           Handle("Other", NoAcquire, "Ok", "Ok", "Ok", rcr)
    /\ UNCHANGED gpu_pending

\* The window system changes the window's inner size between two
\* invocations of the closure.
WindowResize ==
    /\ pc = "running"
    /\ settled
    /\ \E w \in WinSizes \ {winSize} : winSize' = w
    /\ settled' = FALSE
    /\ UNCHANGED << pc, swapchain, framebuffers, render_pass, viewport,
                    previous_frame_end, recreate_swapchain, last, stats,
                    adapters, selected, gpu_pending >>

Next ==
    \/ HandleCloseRequested
    \/ HandleResized
    \/ HandleRedrawEventsCleared
    \/ HandleOther
    \/ WindowResize

Spec == Init /\ [][Next]_vars

\* A step of Next is an invocation of the closure exactly when it leaves
\* settled' true.
Invocation == pc = "running" /\ settled'

\* lib.rs line 53: event_loop.run never returns and keeps invoking the
\* closure: every iteration of winit's loop delivers events (NewEvents,
\* MainEventsCleared, RedrawEventsCleared).  This is WF_vars(Invocation)
\* with ENABLED <<Invocation>>_vars written out: while the loop runs an
\* invocation that changes the state is always possible (CloseRequested).
SpecFair == Spec /\ ([]<>(pc # "running") \/ []<><<Invocation>>_vars)

(***************************************************************************)
(* The same loop with the GPU's progress observed.  A frame is pending     *)
(* from the flush that submits it until the GPU completes it, at a time    *)
(* of the GPU's choosing.  cleanup_finished() only probes the fence of the *)
(* previous chain, so render does not wait for a pending frame;            *)
(* acquire_next_image(.., None) waits until the presentation engine has an *)
(* image to hand out, that is until fewer frames are pending than the      *)
(* swapchain has images.                                                   *)
(***************************************************************************)
\* lines 155-170: the flush that returned Ok submitted one more frame.
Submitted(l) == IF l.flush = "Ok" THEN 1 ELSE 0

GpuRedrawEventsCleared ==
    /\ pc = "running"
    /\ stats.clean => stats.ticks < MaxTicks
    /\ gpu_pending < swapchain.image_count
    /\ \E x \in RenderInputs(swapchain), rcr \in RecreateOutcomes :
           Handle("RedrawEventsCleared", x.acq, x.rec, x.exec, x.flush, rcr)
    /\ gpu_pending' = gpu_pending + Submitted(last')

\* The GPU completes the oldest pending frame.
GpuCompletesFrame ==
    /\ pc = "running"
    /\ gpu_pending > 0
    /\ gpu_pending' = gpu_pending - 1
    /\ UNCHANGED << pc, winSize, swapchain, framebuffers, render_pass, viewport,
                    previous_frame_end, recreate_swapchain, last, settled, stats,
                    adapters, selected >>

NextGpu ==
    \/ HandleCloseRequested
    \/ HandleResized
    \/ GpuRedrawEventsCleared
    \/ HandleOther
    \/ WindowResize
    \/ GpuCompletesFrame

SpecGpu == Init /\ [][NextGpu]_vars

(***************************************************************************)
(* Device selection on its own: any enumeration of physical devices.       *)
(***************************************************************************)
InitDevice ==
    /\ adapters \in SeqsUpTo(Adapters, MaxAdapters)
    /\ selected = [kind |-> "NotRun"]
    /\ pc = "running"
    /\ winSize = << MinImageExtent, MinImageExtent >>
    /\ EngineNew(<< MinImageExtent, MinImageExtent >>, 1)
    /\ recreate_swapchain = FALSE
    /\ last = NoHandler
    /\ settled = TRUE
    /\ stats = NoStats
    /\ gpu_pending = 0

SelectDevice ==
    /\ selected.kind = "NotRun"
    /\ selected' = GetBestCompatiblePhysicalDevice(adapters)
    /\ UNCHANGED << pc, winSize, swapchain, framebuffers, render_pass, viewport,
                    previous_frame_end, recreate_swapchain, last, settled, stats,
                    adapters, gpu_pending >>

NextDevice == SelectDevice

SpecDevice == InitDevice /\ [][NextDevice]_vars

(***************************************************************************)
(* Properties.                                                             *)
(***************************************************************************)
\* A step is an invocation of the closure exactly when it leaves settled'
\* true; the window system's step leaves it false.
Drew(l) == Count(l.calls, "begin_render_pass") > 0

\* C1: when acquire returns OutOfDate the frame is skipped: no command buffer
\* is recorded, nothing is submitted or presented, previous_frame_end is
\* neither taken nor stored, and the flag is true when render returns.
C1_OutOfDateAcquireSkipsFrame ==
    [][ (settled' /\ last'.acquire = "OutOfDate") =>
           /\ Count(last'.calls, "begin_render_pass") = 0
           /\ Count(last'.calls, "build") = 0
           /\ Count(last'.calls, "then_execute") = 0
           /\ Count(last'.calls, "then_swapchain_present") = 0
           /\ Count(last'.calls, "take_previous_frame_end") = 0
           /\ Count(last'.calls, "store_previous_frame_end") = 0
           /\ previous_frame_end' = previous_frame_end
           /\ last'.render = "returned"
           /\ last'.flagAfterMatch ]_vars

C1_Witness ==
    /\ last.event = "RedrawEventsCleared"
    /\ last.acquire = "OutOfDate"
    /\ previous_frame_end = Fence

\* C2: recreate_swapchain called while the window's extent is unsupported is
\* a no-op and not fatal: swapchain, framebuffers and viewport are unchanged
\* and the flag is still set on return.
C2_UnsupportedExtentIsNoOp ==
    [][ (/\ settled'
         /\ Count(last'.calls, "recreate") = 1
         /\ ~ImageExtentSupported(winSize')) =>
           /\ swapchain' = swapchain
           /\ framebuffers' = framebuffers
           /\ viewport' = viewport
           /\ recreate_swapchain'
           /\ pc' # "panicked" ]_vars

C2_Witness ==
    /\ settled
    /\ winSize = << 0, 0 >>
    /\ last.recreate = "noop"
    /\ recreate_swapchain

\* The recreations that succeeded in the Resized invocation and the
\* RedrawEventsCleared invocation after it.
RecreationsOfPair(l) ==
    (IF l.after = "ok" THEN 1 ELSE 0) + (IF l.recreate = "ok" THEN 1 ELSE 0)

\* C3 as stated: a Resized event followed by one redraw tick gives exactly one
\* swapchain recreation, and no frame is drawn on a framebuffer whose
\* dimensions differ from the window's extent.
C3_AsStated ==
    (settled /\ last.event = "RedrawEventsCleared" /\ last.after # "no") =>
        /\ RecreationsOfPair(last) = 1
        /\ Drew(last) => last.target.extent = winSize

\* C3 amended: when the Resized invocation's recreation succeeded (the
\* window's extent was supported) and the window was not resized since, the
\* redraw tick after it recreates again only if its acquire reported
\* suboptimal or OutOfDate or its flush reported OutOfDate, and a frame it
\* draws is drawn on a framebuffer with the window's extent.
C3_ResizeThenRedraw ==
    (settled /\ last.event = "RedrawEventsCleared" /\ last.after = "ok") =>
        /\ (last.acquire \notin {"Suboptimal", "OutOfDate"} /\ last.flush # "OutOfDate")
              => /\ last.recreate = "none"
                 /\ RecreationsOfPair(last) = 1
        /\ Drew(last) => last.target.extent = winSize

C3_Witness ==
    /\ settled
    /\ last.event = "RedrawEventsCleared"
    /\ last.after = "ok"
    /\ last.acquire = "Ok"
    /\ last.flush = "Ok"
    /\ Drew(last)
    /\ swapchain.id = 1

\* The swapchain render acquired from in the last invocation.
SwapchainRendered == IF last.recreate = "ok" THEN swapchain.id - 1 ELSE swapchain.id

\* C4: N redraw ticks with no Resized event and no acquire or flush error
\* give exactly N acquire/record/submit/present cycles and N stores of the
\* in-flight future; each cycle begins its one render pass on the framebuffer
\* whose index is the acquired image index and presents that index.
C4_CleanTicksAreCycles ==
    stats.clean =>
        /\ stats.acquires = stats.ticks
        /\ stats.records = stats.ticks
        /\ stats.submits = stats.ticks
        /\ stats.presents = stats.ticks
        /\ stats.stores = stats.ticks
        /\ last.event = "RedrawEventsCleared" =>
              /\ Count(last.calls, "acquire_next_image") = 1
              /\ Count(last.calls, "begin_render_pass") = 1
              /\ Count(last.calls, "end_render_pass") = 1
              /\ Count(last.calls, "then_execute") = 1
              /\ Count(last.calls, "then_swapchain_present") = 1
              /\ Count(last.calls, "take_previous_frame_end") = 1
              /\ Count(last.calls, "store_previous_frame_end") = 1
              /\ ArgOf(last.calls, "begin_render_pass")
                    = ArgOf(last.calls, "acquire_next_image")
              /\ ArgOf(last.calls, "then_swapchain_present")
                    = ArgOf(last.calls, "acquire_next_image")
              /\ last.target.image
                    = [swapchain |-> SwapchainRendered,
                       index |-> ArgOf(last.calls, "acquire_next_image")]

C4_Witness ==
    /\ stats.clean
    /\ stats.ticks = MaxTicks
    /\ stats.presents = MaxTicks
    /\ last.event = "RedrawEventsCleared"
    /\ ArgOf(last.calls, "acquire_next_image") = 1

\* C5: stated without the iterator chain.
Eligible(a) ==
    /\ a.khr_swapchain
    /\ \E i \in 1..Len(a.families) :
          a.families[i].graphics /\ a.families[i].surface_support = "true"

EligibleAdapters == {k \in 1..Len(adapters) : Eligible(adapters[k])}

PreferenceOrder == << "DiscreteGpu", "IntegratedGpu", "VirtualGpu", "Cpu", "Other" >>

Rank(device_type) ==
    CHOOSE n \in 1..Len(PreferenceOrder) : PreferenceOrder[n] = device_type

\* C5: with an eligible adapter the selection returns the eligible adapter of
\* lowest device-type rank, the first enumerated among equals, with the index
\* of its first graphics+present family; with none it fails fatally.
C5_BestCompatibleDevice ==
    selected.kind # "NotRun" =>
        IF EligibleAdapters = {} THEN selected.kind = "Panic"
        ELSE /\ selected.kind = "Some"
             /\ selected.adapter \in EligibleAdapters
             /\ selected.device_type = adapters[selected.adapter].device_type
             /\ \A k \in EligibleAdapters :
                   /\ Rank(selected.device_type) <= Rank(adapters[k].device_type)
                   /\ Rank(selected.device_type) = Rank(adapters[k].device_type)
                         => selected.adapter <= k
             /\ LET fam == adapters[selected.adapter].families
                    i == selected.queue_family_index + 1
                IN  /\ i \in 1..Len(fam)
                    /\ fam[i].graphics /\ fam[i].surface_support = "true"
                    /\ \A j \in 1..(i - 1) :
                          ~(fam[j].graphics /\ fam[j].surface_support = "true")

C5_Witness ==
    /\ selected.kind = "Some"
    /\ Cardinality(EligibleAdapters) = 2
    /\ adapters[1].device_type = adapters[2].device_type
    /\ selected.adapter = 1
    /\ selected.queue_family_index = 1

\* C6: in every reachable state there are as many framebuffers as the current
\* swapchain has images, and framebuffer i is built from its image i.
C6_FramebuffersMatchSwapchain ==
    /\ Len(framebuffers) = swapchain.image_count
    /\ \A i \in 1..Len(framebuffers) :
          /\ framebuffers[i].image = [swapchain |-> swapchain.id, index |-> i - 1]
          /\ framebuffers[i].extent = swapchain.image_extent

C6_Witness ==
    /\ swapchain.id = MaxSwapchains
    /\ swapchain.image_count = MaxImages
    /\ last.recreate = "noop"

\* C7: after construction and after every successful recreation the viewport
\* has the extent of the current swapchain's first image, which is the
\* window's extent read when that swapchain was built.
C7_ViewportIsWindowExtent ==
    /\ viewport.dimensions = SwapchainImages(swapchain)[1].dimensions
    /\ (settled /\ (last.event = "None" \/ last.recreate = "ok"))
          => viewport.dimensions = winSize

C7_Witness ==
    /\ settled
    /\ last.recreate = "ok"
    /\ winSize = << MaxWidth, MinImageExtent >>
    /\ MaxWidth # MinImageExtent

\* C8: a recreation while the window's extent equals the current swapchain's
\* leaves the number of framebuffers, their dimensions and the viewport as
\* they were.
C8_RecreateSameExtent ==
    [][ (/\ settled'
         /\ last'.recreate = "ok"
         /\ winSize = swapchain.image_extent) =>
           /\ Len(framebuffers') = Len(framebuffers)
           /\ \A i \in 1..Len(framebuffers) :
                 framebuffers'[i].extent = framebuffers[i].extent
           /\ viewport' = viewport ]_vars

\* Two recreations in a row with the window left as it was.
C8_Witness ==
    /\ settled
    /\ last.event = "Resized"
    /\ last.after = "ok"
    /\ last.recreate = "ok"
    /\ swapchain.id = 2

\* C9 as stated: whenever an invocation of the closure has completed, the
\* swapchain's extent equals the window's inner size.
C9_AsStated ==
    (settled /\ last.event # "None") => swapchain.image_extent = winSize

\* C9 amended: whenever an invocation in which the recreation succeeded has
\* completed, the swapchain's extent equals the window's inner size.
C9_ExtentAfterRecreation ==
    (settled /\ last.recreate = "ok") => swapchain.image_extent = winSize

\* A recreation retried, with success, on an event that is no resize.
C9_Witness ==
    /\ settled
    /\ last.event = "Other"
    /\ last.recreate = "ok"
    /\ swapchain.id = 2
    /\ swapchain.image_extent = << MaxWidth, MinImageExtent >>

\* C10: when acquire succeeds with suboptimal set and render returns, the
\* frame was recorded, submitted and presented, the flag was set when render
\* returned, and recreate_swapchain is called in the same invocation, after
\* the present.
C10_SuboptimalPresentsThenRecreates ==
    (last.acquire = "Suboptimal" /\ last.render = "returned") =>
        /\ Count(last.calls, "begin_render_pass") = 1
        /\ Count(last.calls, "then_execute") = 1
        /\ Count(last.calls, "then_swapchain_present") = 1
        /\ last.flagAfterMatch
        /\ last.recreate # "none"
        /\ Count(last.calls, "recreate") = 1
        /\ IndexOf(last.calls, "recreate", 1) = Len(last.calls)
        /\ IndexOf(last.calls, "begin_render_pass", 1)
              < IndexOf(last.calls, "then_execute", 1)
        /\ IndexOf(last.calls, "then_execute", 1)
              < IndexOf(last.calls, "then_swapchain_present", 1)
        /\ IndexOf(last.calls, "then_swapchain_present", 1)
              < IndexOf(last.calls, "recreate", 1)
        /\ Count(last.calls, "acquire_next_image") = 1

C10_Witness ==
    /\ last.acquire = "Suboptimal"
    /\ last.render = "returned"
    /\ last.flush = "Ok"
    /\ last.recreate = "ok"
    /\ recreate_swapchain = FALSE

\* C11: when the fence-and-flush returns OutOfDate, render raises the
\* recreate_swapchain flag and stores an already-complete future (now) as the
\* in-flight future, the only store of that call, after the flush; the field
\* still holds it when the next render reclaims and joins it.
C11_FlushOutOfDateStoresNow ==
    last.flush = "OutOfDate" =>
        /\ last.render = "returned"
        /\ last.flagAfterMatch
        /\ previous_frame_end = Now
        /\ Count(last.calls, "store_previous_frame_end") = 1
        /\ ArgOf(last.calls, "store_previous_frame_end") = 0
        /\ IndexOf(last.calls, "then_signal_fence_and_flush", 1)
             < IndexOf(last.calls, "store_previous_frame_end", 1)

C11_Witness ==
    /\ last.flush = "OutOfDate"
    /\ last.acquire = "Ok"
    /\ last.recreate = "ok"
    /\ previous_frame_end = Now

\* C12: when the fence-and-flush returns a failure other than OutOfDate,
\* render returns: the failure is printed, an already-complete future is
\* stored as the in-flight future, the loop keeps running unless the
\* recreation of that same invocation fails fatally, and the render of the
\* next redraw tick calls acquire_next_image again.
C12_Reported ==
    last.flush = "Error" =>
        /\ last.render = "returned"
        /\ Count(last.calls, "println") = 1
        /\ ArgOf(last.calls, "store_previous_frame_end") = 0
        /\ previous_frame_end = Now
        /\ last.recreate # "panic" => pc = "running"

C12_NextTickAcquires ==
    (last.flush = "Error" /\ settled' /\ last'.event = "RedrawEventsCleared")
        => Count(last'.calls, "acquire_next_image") = 1

C12_FlushErrorIsSurvived == []C12_Reported /\ [][C12_NextTickAcquires]_vars

C12_Witness ==
    /\ last.flush = "Error"
    /\ last.acquire = "Ok"
    /\ last.recreate = "none"
    /\ pc = "running"
    /\ previous_frame_end = Now

\* The invocation before this state met a fatal outcome: acquire failed with
\* an error other than OutOfDate, a command-buffer or then_execute unwrap
\* failed, or the recreation of a supported extent failed.
FatalOutcome ==
    \/ last.acquire = "Error" /\ Count(last.calls, "panic_acquire") = 1
    \/ Count(last.calls, "panic_record") = 1
    \/ Count(last.calls, "panic_execute") = 1
    \/ last.recreate = "panic" /\ ImageExtentSupported(winSize)

\* C13: the loop is in the panicked state only after an invocation that met
\* a fatal outcome (acquire error other than OutOfDate, record or execute
\* failure, recreation failure other than unsupported extent); OutOfDate on
\* acquire, OutOfDate on flush and an unsupported extent never end it, and no
\* unwrap of the in-flight future or framebuffer index ever fails.
C13_PanicsOnlyOnFatalOutcome ==
    /\ pc = "panicked" => FatalOutcome
    /\ (\/ last.acquire = "OutOfDate"
        \/ last.flush = "OutOfDate"
        \/ last.recreate = "noop") => (pc = "panicked" => last.recreate = "panic")
    /\ Count(last.calls, "panic_unwrap_none") = 0
    /\ Count(last.calls, "panic_index") = 0

C13_Witness ==
    /\ pc = "running"
    /\ last.flush = "OutOfDate"
    /\ last.recreate = "noop"
    /\ last.after = "noop"

\* C14: at most one frame is in flight: in every reachable state the number
\* of submitted frames whose GPU work is not yet complete is at most one.
C14_AsStated == gpu_pending <= 1

\* The steps of one render call, in the order of the source text.
RenderSteps ==
    << "cleanup_finished", "acquire_next_image", "begin_render_pass",
       "end_render_pass", "build", "take_previous_frame_end", "join",
       "then_execute", "then_swapchain_present", "then_signal_fence_and_flush",
       "store_previous_frame_end" >>

StepAt(i) == IndexOf(last.calls, RenderSteps[i], 1)

\* C15: in every render call the steps happen in the order reclaim, acquire,
\* record, submit, present, fence-and-flush, each at most once and none
\* without all the earlier ones; the command buffer is executed on the join
\* of the taken in-flight future with the acquisition future of the image
\* acquire returned, and the present is queued after the execute for that
\* same image index.
C15_RenderStepOrder ==
    last.event = "RedrawEventsCleared" =>
        /\ StepAt(1) = 1
        /\ \A i \in 1..Len(RenderSteps) :
               Count(last.calls, RenderSteps[i]) <= 1
        /\ \A i \in 2..Len(RenderSteps) :
               StepAt(i) > 0 => (StepAt(i - 1) > 0 /\ StepAt(i - 1) < StepAt(i))
        /\ StepAt(8) > 0 =>
               /\ StepAt(7) = StepAt(6) + 1
               /\ StepAt(8) = StepAt(7) + 1
               /\ ArgOf(last.calls, "join") = ArgOf(last.calls, "acquire_next_image")
               /\ ArgOf(last.calls, "then_execute") = ArgOf(last.calls, "join")
        /\ StepAt(9) > 0 =>
               /\ StepAt(9) = StepAt(8) + 1
               /\ ArgOf(last.calls, "then_swapchain_present")
                    = ArgOf(last.calls, "acquire_next_image")
        /\ last.flush # "none" => StepAt(10) = StepAt(9) + 1

C15_Witness ==
    /\ last.event = "RedrawEventsCleared"
    /\ last.flush = "Ok"
    /\ ArgOf(last.calls, "acquire_next_image") = 1
    /\ ArgOf(last.calls, "then_swapchain_present") = 1
    /\ StepAt(11) = Len(RenderSteps)

\* C16: an invocation whose match leaves the flag set (and whose render did
\* not panic) calls recreate_swapchain, whatever the event; and, events being
\* delivered for ever, whenever the flag is set while the window's extent is
\* supported, the flag is eventually cleared by a successful recreation,
\* unless the loop ends first (close request or fatal outcome).
C16_AttemptedInEveryInvocation ==
    (last.flagAfterMatch /\ last.render # "panicked") => last.recreate # "none"

C16_RetriedUntilCleared ==
    /\ []C16_AttemptedInEveryInvocation
    /\ (recreate_swapchain /\ pc = "running" /\ ImageExtentSupported(winSize))
          ~> (\/ ~recreate_swapchain /\ last.recreate = "ok"
              \/ pc # "running")

C16_Witness ==
    /\ last.event = "Other"
    /\ last.flagAfterMatch
    /\ last.recreate = "ok"
    /\ ~recreate_swapchain
    /\ settled

EngineObjects == << swapchain, framebuffers, render_pass, viewport >>

\* C17: no step changes the render pass; the swapchain, the framebuffers and
\* the viewport change only in an invocation whose recreate_swapchain call
\* succeeded, so an invocation that only renders (success, suboptimal,
\* OutOfDate on acquire or flush, other flush failure, panic) leaves them as
\* they were, and so does a no-op recreation and a resize of the window.
C17_StepKeepsEngineObjects ==
    /\ render_pass' = render_pass
    /\ render_pass' = RenderPass
    /\ EngineObjects' # EngineObjects => (settled' /\ last'.recreate = "ok")
    /\ (settled' /\ last'.event = "RedrawEventsCleared" /\ last'.recreate = "none")
          => EngineObjects' = EngineObjects

C17_OnlyRecreateChangesEngineObjects == [][C17_StepKeepsEngineObjects]_vars

C17_Witness ==
    /\ last.event = "RedrawEventsCleared"
    /\ last.flush = "Error"
    /\ last.recreate = "none"
    /\ swapchain.id = 1
    /\ viewport.dimensions = << AsF32(MaxWidth), AsF32(MinImageExtent) >>

\* C18: previous_frame_end is Some whenever the loop can call render, that
\* is in every running state, after any non-fatal render outcomes and
\* recreations; the reclaim step leaves it in the field, so an invocation
\* whose render returned early (OutOfDate on acquire) holds the same future
\* as before, and no render ever panics on the unwrap of an empty field.
C18_StepKeepsFuture ==
    /\ pc' = "running" => previous_frame_end' # None
    /\ (settled' /\ last'.acquire = "OutOfDate")
          => previous_frame_end' = previous_frame_end
    /\ settled' => Count(last'.calls, "panic_unwrap_none") = 0

C18_FutureAlwaysPresent ==
    /\ [](pc = "running" => previous_frame_end # None)
    /\ [][C18_StepKeepsFuture]_vars

C18_Witness ==
    /\ pc = "running"
    /\ last.event = "RedrawEventsCleared"
    /\ last.acquire = "OutOfDate"
    /\ last.recreate = "ok"
    /\ previous_frame_end = Fence

\* C19: the flag is cleared only by a successful recreation, and a successful
\* recreation clears it; the match never clears it; it is raised only by a
\* Resized event or by a render whose acquire reported suboptimal or
\* OutOfDate or whose flush reported OutOfDate; hence after every invocation
\* that did not panic the flag is set only if the recreation of that
\* invocation was a no-op for an unsupported extent.
C19_StepOnFlag ==
    /\ (recreate_swapchain /\ ~recreate_swapchain')
          => (settled' /\ last'.recreate = "ok")
    /\ (settled' /\ last'.recreate = "ok") => ~recreate_swapchain'
    /\ (settled' /\ recreate_swapchain) => last'.flagAfterMatch
    /\ (settled' /\ ~recreate_swapchain /\ last'.flagAfterMatch)
          => \/ last'.event = "Resized"
             \/ last'.acquire \in {"Suboptimal", "OutOfDate"}
             \/ last'.flush = "OutOfDate"
    /\ (settled' /\ recreate_swapchain' /\ pc' # "panicked")
          => (last'.recreate = "noop" /\ ~ImageExtentSupported(winSize'))

C19_FlagDiscipline ==
    /\ []((recreate_swapchain /\ pc # "panicked") => last.recreate = "noop")
    /\ [][C19_StepOnFlag]_vars

C19_Witness ==
    /\ recreate_swapchain
    /\ settled
    /\ last.acquire = "Suboptimal"
    /\ last.flush = "Ok"
    /\ last.recreate = "noop"

====
